---- MODULE Spec2Model ----
\* Model of the node listing, pagination and folder navigation of go-acd
\* (package acd, nodes.go): NodesService.listNodes / listAllNodes, Folder.GetNode,
\* Folder.GetFolder, Folder.WalkNodes and the typed node views.
EXTENDS Naturals, Sequences, FiniteSets, TLC

\* ---------------------------------------------------------------- bounds

\* Largest number of pages the remote listing is split into.
MaxPages == 3
\* Largest number of node records in one page.
MaxPageLen == 2
\* No call is followed for more requests than this (one more than the pages).
MaxReq == MaxPages + 1
\* Largest number of names given to WalkNodes.
MaxNames == 3
\* Largest number of records the server answers a lookup by name with.
MaxMatches == 2

\* ---------------------------------------------------------------- values

\* The nil pointer / absent JSON member, for the string-typed members.
Nil == "nil"

\* The error value nil, and the errors of the transport and of the lookups.
NoErr == [kind |-> Nil, name |-> "", count |-> 0]
Err(k) == [kind |-> k, name |-> "", count |-> 0]

\* A Go slice of nodes: the nil slice and the empty slice both have length 0.
NilSlice == [nil |-> TRUE, elems |-> <<>>]
Slice(s) == [nil |-> FALSE, elems |-> s]

\* The i-th node record the remote side holds, as it is decoded from JSON: the
\* first two are the records of the test fixture. A decoded record has no service.
NodeRec(i) ==
  IF i = 1 THEN [null |-> FALSE, Id |-> "eRkZ6YMuX5W3VqV3Ia7_lf", Name |-> "fooNew.jpg",
                 Kind |-> "FILE", service |-> Nil]
  ELSE IF i = 2 THEN [null |-> FALSE, Id |-> "fooo1", Name |-> "foo.zip", Kind |-> "FILE",
                      service |-> Nil]
  ELSE [null |-> FALSE, Id |-> "id" \o ToString(i), Name |-> "name" \o ToString(i),
        Kind |-> "FILE", service |-> Nil]

\* The nil *Node.
NilNode == [null |-> TRUE, Id |-> "", Name |-> "", Kind |-> Nil, service |-> Nil]

\* The continuation token the server hands out with page j: it leads to page j + 1.
TokenOf(j) == IF j = 1 THEN "kgkbpodpt6" ELSE "token" \o ToString(j)

\* The "data" member of one page: absent (decoded as the nil slice) or a
\* sequence of 0..MaxPageLen records.
PageData == {NilSlice} \cup {Slice([i \in 1..k |-> NodeRec(i)]) : k \in 0..MaxPageLen}

\* The listings a server can hold: 1..MaxPages pages, every page but the last
\* carrying a continuation token.
Listings == UNION {[1..n -> PageData] : n \in 1..MaxPages}

\* &NodeListOptions{}: the zero value of the options.
FreshOpts ==
  [null |-> FALSE, Limit |-> 0, Filters |-> <<>>, Sort |-> "", StartToken |-> "", reachedEnd |-> FALSE]
\* The nil *NodeListOptions.
NilOpts ==
  [null |-> TRUE, Limit |-> 0, Filters |-> <<>>, Sort |-> "", StartToken |-> "", reachedEnd |-> FALSE]

\* What can go wrong in one listNodes call: building the URL, building the
\* request, the transport, decoding the body.
Faults == {"none", "urlerr", "reqerr", "neterr", "decerr"}

Urls == {"nodes", "nodes/folder1/children"}

\* The values of "kind" a record may carry: the two known ones, another one, none.
Kinds == {"FILE", "FOLDER", "WHATEVER", Nil}

\* The names a caller looks up, and the paths it walks.
Names == {"a", "b", "missing"}
NameSeqs == UNION {[1..n -> Names] : n \in 0..MaxNames}

VARIABLES
  pages,   \* the listing the server holds: a sequence of pages
  opts,    \* the caller's NodeListOptions value
  pc,      \* where the caller is: "idle", in a call ("listAll", "pair", "walk",
           \* "upload"), or holding what a call "returned"
  fr,      \* the running (or last finished) listing call
  fr2,     \* the second listing call, when two are compared
  wk,      \* the running (or last finished) lookup or walk
  up,      \* the running (or last finished) Upload: caller, producer and pipe
  dl,      \* the local destination file and the last Download
  ac       \* the account the server holds and the last account call

vars == <<pages, opts, pc, fr, fr2, wk, up, dl, ac>>

\* ---------------------------------------------------------------- server

\* What the environment does during one listNodes call: the fault that happens,
\* and the answer of the server if the request is a filtered lookup (n records,
\* or no "data" member at all; the kind of the first record; whether the answer
\* carries a continuation token).
Env(fault) == [fault |-> fault, absent |-> FALSE, n |-> 0, kind |-> "FILE", more |-> FALSE]

\* The answer to a filtered lookup, filters being <<"parents", id, "name", name>>:
\* the records are children of that parent with that name.
Matches(filters, env) ==
  [Count     |-> env.n,
   NextToken |-> IF env.more THEN TokenOf(1) ELSE Nil,
   Data      |-> IF env.absent THEN NilSlice
                 ELSE Slice([i \in 1..env.n |->
                        [null |-> FALSE, Id |-> filters[2] \o "." \o ToString(i),
                         Name |-> filters[4], Kind |-> IF i = 1 THEN env.kind ELSE "FILE",
                         service |-> Nil]])]

\* The page a request asks for: the first one without startToken.
PageIndex(tok) ==
  IF tok = Nil THEN 1
  ELSE IF \E j \in 1..(Len(pages) - 1) : TokenOf(j) = tok
       THEN (CHOOSE j \in 1..(Len(pages) - 1) : TokenOf(j) = tok) + 1
       ELSE 1

\* The response body of the listing endpoint, decoded into nodeListInternal. A
\* server that never ends its listing (env.more) answers its last page with a
\* token too, and serves the first page again for it.
nodeListInternal(req, env) ==
  IF req.filters # <<>> THEN Matches(req.filters, env)
  ELSE LET j == PageIndex(req.startToken) IN
       [Count     |-> Len(pages[j].elems),
        NextToken |-> IF j < Len(pages) \/ env.more THEN TokenOf(j) ELSE Nil,
        Data      |-> pages[j]]

\* ---------------------------------------------------------------- listing

\* The addOptions that leaves the cursor out of the query.
addOptionsNoToken(s, o) ==
  IF o.null
  THEN [path |-> s, limit |-> Nil, filters |-> <<>>, sort |-> Nil, startToken |-> Nil]
  ELSE [path       |-> s,
        limit      |-> IF o.Limit = 0 THEN Nil ELSE ToString(o.Limit),
        filters    |-> o.Filters,
        sort       |-> IF o.Sort = "" THEN Nil ELSE o.Sort,
        startToken |-> Nil]

\* addOptions: the query parameters of opts; members with the zero value are
\* omitted (omitempty), and nil options give the bare path.
addOptions(s, o) ==
  IF o.null
  THEN [path |-> s, limit |-> Nil, filters |-> <<>>, sort |-> Nil, startToken |-> Nil]
  ELSE [path       |-> s,
        limit      |-> IF o.Limit = 0 THEN Nil ELSE ToString(o.Limit),
        filters    |-> o.Filters,
        sort       |-> IF o.Sort = "" THEN Nil ELSE o.Sort,
        startToken |-> IF o.StartToken = "" THEN Nil ELSE o.StartToken]

\* What a listNodes call gives back: the options as it leaves them, the nodes,
\* the response, the error, and the exchanges it had with the transport.
Returned(o, nodes, resp, err, log) ==
  [opts |-> o, nodes |-> nodes, resp |-> resp, err |-> err, log |-> log]

\* One exchange with the transport (client.Do): the request, what went wrong,
\* and the body the server answered with.
Exchange(req, env) == [req |-> req, fault |-> env.fault, body |-> nodeListInternal(req, env)]

\* The end test that never finds the end.
reachedEndTestNever(o) == FALSE

\* The end test that takes nil options for an exhausted listing.
reachedEndTestNilToo(o) == o.null \/ o.reachedEnd

\* The test listNodes starts with: the listing was exhausted by an earlier call.
reachedEndTest(o) == ~o.null /\ o.reachedEnd

\* The update that stores the cursor but also marks the listing as exhausted.
advanceAlwaysEnd(o, nodeList) ==
  IF o.null THEN o
  ELSE IF nodeList.NextToken # Nil
       THEN [o EXCEPT !.StartToken = nodeList.NextToken, !.reachedEnd = TRUE]
       ELSE [o EXCEPT !.reachedEnd = TRUE]

\* The update listNodes makes to the options after a successful response.
advance(o, nodeList) ==
  IF o.null THEN o
  ELSE IF nodeList.NextToken # Nil
       THEN [o EXCEPT !.StartToken = nodeList.NextToken]
       ELSE [o EXCEPT !.reachedEnd = TRUE]

\* The nodes of a response, each with its back-reference to the service.
withService(data) ==
  [nil |-> data.nil, elems |-> [i \in DOMAIN data.elems |-> [data.elems[i] EXCEPT !.service = "s"]]]

\* The listNodes that updates the options from the body before it looks at the
\* error of the exchange.
listNodesAdvanceFirst(url, o, env) ==
  IF reachedEndTest(o) THEN Returned(o, NilSlice, Nil, NoErr, <<>>)
  ELSE IF env.fault = "urlerr" /\ ~o.null THEN Returned(o, NilSlice, Nil, Err("urlerr"), <<>>)
  ELSE IF env.fault = "reqerr" THEN Returned(o, NilSlice, Nil, Err("reqerr"), <<>>)
  ELSE
    LET req == addOptions(url, o)
        nodeList == nodeListInternal(req, env)
    IN IF env.fault = "neterr"
       THEN Returned(o, NilSlice, Nil, Err("neterr"), <<Exchange(req, env)>>)
       ELSE IF env.fault = "decerr"
       THEN Returned(advance(o, nodeList), NilSlice, "resp", Err("decerr"), <<Exchange(req, env)>>)
       ELSE Returned(advance(o, nodeList), withService(nodeList.Data), "resp", NoErr,
                     <<Exchange(req, env)>>)

\* The listNodes that takes a failed exchange for the end of the listing.
listNodesEndOnError(url, o, env) ==
  IF reachedEndTest(o) THEN Returned(o, NilSlice, Nil, NoErr, <<>>)
  ELSE IF env.fault = "urlerr" /\ ~o.null THEN Returned(o, NilSlice, Nil, Err("urlerr"), <<>>)
  ELSE IF env.fault = "reqerr" THEN Returned(o, NilSlice, Nil, Err("reqerr"), <<>>)
  ELSE
    LET req == addOptions(url, o)
        nodeList == nodeListInternal(req, env)
    IN IF env.fault = "neterr"
       THEN Returned(IF o.null THEN o ELSE [o EXCEPT !.reachedEnd = TRUE], NilSlice, Nil,
                     Err("neterr"), <<Exchange(req, env)>>)
       ELSE IF env.fault = "decerr"
       THEN Returned(o, NilSlice, "resp", Err("decerr"), <<Exchange(req, env)>>)
       ELSE Returned(advance(o, nodeList), withService(nodeList.Data), "resp", NoErr,
                     <<Exchange(req, env)>>)

\* NodesService.listNodes(url, opts): one page. env.fault is what goes wrong in
\* this call; building the URL cannot fail for nil options.
listNodes(url, o, env) ==
  IF reachedEndTest(o) THEN Returned(o, NilSlice, Nil, NoErr, <<>>)
  ELSE IF env.fault = "urlerr" /\ ~o.null THEN Returned(o, NilSlice, Nil, Err("urlerr"), <<>>)
  ELSE IF env.fault = "reqerr" THEN Returned(o, NilSlice, Nil, Err("reqerr"), <<>>)
  ELSE
    LET req == addOptions(url, o) IN
    IF env.fault = "neterr"
    THEN Returned(o, NilSlice, Nil, Err("neterr"), <<Exchange(req, env)>>)
    ELSE IF env.fault = "decerr"
    THEN Returned(o, NilSlice, "resp", Err("decerr"), <<Exchange(req, env)>>)
    ELSE
      LET nodeList == nodeListInternal(req, env) IN
      Returned(advance(o, nodeList), withService(nodeList.Data), "resp", NoErr,
               <<Exchange(req, env)>>)

\* The faults that can happen to a listNodes call on options o.
FaultsOf(o) == IF o.null THEN Faults \ {"urlerr"} ELSE Faults

\* What the environment can do during a listNodes call on the paged listing.
ListEnvs(o) == {Env(fault) : fault \in FaultsOf(o)}

\* ---------------------------------------------------------------- calls

\* A listing call: the operation, the options argument (argNil: nil was
\* passed; pre: its value at the call), the options the call works on (o), the
\* nodes accumulated (result), and once done what it returned and the
\* exchanges it had with the transport.
NoFrame ==
  [op |-> "none", argNil |-> FALSE, url |-> "", pre |-> NilOpts, o |-> NilOpts,
   result |-> NilSlice, done |-> TRUE, nodes |-> NilSlice, resp |-> Nil, err |-> NoErr,
   log |-> <<>>]

\* GetNodes / GetChildren as one call: what listNodes returns.
PageCall(op, url, a, env) ==
  LET r == listNodes(url, a, env) IN
  [op |-> op, argNil |-> a.null, url |-> url, pre |-> a, o |-> r.opts,
   result |-> NilSlice, done |-> TRUE, nodes |-> r.nodes, resp |-> r.resp, err |-> r.err,
   log |-> r.log]

\* The options listAllNodes works on when it leaves a nil argument as it is.
listAllOptsKeepNil(o) == o

\* The options listAllNodes works on: its own fresh ones for a nil argument.
listAllOpts(o) == IF o.null THEN FreshOpts ELSE o

\* listAllNodes up to its loop.
listAllNodes(op, url, a) ==
  [op |-> op, argNil |-> a.null, url |-> url, pre |-> a, o |-> listAllOpts(a),
   result |-> Slice(<<>>), done |-> FALSE, nodes |-> NilSlice, resp |-> Nil, err |-> NoErr,
   log |-> <<>>]

\* append(result, nodes...)
append(result, nodes) == Slice(result.elems \o nodes.elems)

\* The loop that gives up what it has accumulated when a page fails.
listAllLoopDropOnError(f, env) ==
  LET r == listNodes(f.url, f.o, env) IN
  IF r.err # NoErr
  THEN [f EXCEPT !.o = r.opts, !.done = TRUE, !.nodes = NilSlice, !.resp = r.resp,
                 !.err = r.err, !.log = @ \o r.log]
  ELSE IF r.nodes.nil
  THEN [f EXCEPT !.o = r.opts, !.done = TRUE, !.nodes = f.result, !.resp = Nil,
                 !.err = NoErr, !.log = @ \o r.log]
  ELSE [f EXCEPT !.o = r.opts, !.result = append(f.result, r.nodes), !.log = @ \o r.log]

\* The loop that stops at a page of length 0 instead of a nil one.
listAllLoopStopOnEmpty(f, env) ==
  LET r == listNodes(f.url, f.o, env) IN
  IF r.err # NoErr
  THEN [f EXCEPT !.o = r.opts, !.done = TRUE, !.nodes = f.result, !.resp = r.resp,
                 !.err = r.err, !.log = @ \o r.log]
  ELSE IF Len(r.nodes.elems) = 0
  THEN [f EXCEPT !.o = r.opts, !.done = TRUE, !.nodes = f.result, !.resp = Nil,
                 !.err = NoErr, !.log = @ \o r.log]
  ELSE [f EXCEPT !.o = r.opts, !.result = append(f.result, r.nodes), !.log = @ \o r.log]

\* The loop that asks again after a page has failed.
listAllLoopContinueOnError(f, env) ==
  LET r == listNodes(f.url, f.o, env) IN
  IF r.err # NoErr
  THEN [f EXCEPT !.o = r.opts, !.log = @ \o r.log]
  ELSE IF r.nodes.nil
  THEN [f EXCEPT !.o = r.opts, !.done = TRUE, !.nodes = f.result, !.resp = Nil,
                 !.err = NoErr, !.log = @ \o r.log]
  ELSE [f EXCEPT !.o = r.opts, !.result = append(f.result, r.nodes), !.log = @ \o r.log]

\* The loop that gives up after two pages.
listAllLoopCapped(f, env) ==
  LET r == listNodes(f.url, f.o, env) IN
  IF r.err # NoErr
  THEN [f EXCEPT !.o = r.opts, !.done = TRUE, !.nodes = f.result, !.resp = r.resp,
                 !.err = r.err, !.log = @ \o r.log]
  ELSE IF r.nodes.nil \/ Len(f.log) >= 2
  THEN [f EXCEPT !.o = r.opts, !.done = TRUE, !.nodes = f.result, !.resp = Nil,
                 !.err = NoErr, !.log = @ \o r.log]
  ELSE [f EXCEPT !.o = r.opts, !.result = append(f.result, r.nodes), !.log = @ \o r.log]

\* One iteration of the loop of listAllNodes: a listNodes call, then return on
\* an error, leave the loop on nil nodes, or append.
listAllLoop(f, env) ==
  LET r == listNodes(f.url, f.o, env) IN
  IF r.err # NoErr
  THEN [f EXCEPT !.o = r.opts, !.done = TRUE, !.nodes = f.result, !.resp = r.resp,
                 !.err = r.err, !.log = @ \o r.log]
  ELSE IF r.nodes.nil
  THEN [f EXCEPT !.o = r.opts, !.done = TRUE, !.nodes = f.result, !.resp = Nil,
                 !.err = NoErr, !.log = @ \o r.log]
  ELSE [f EXCEPT !.o = r.opts, !.result = append(f.result, r.nodes), !.log = @ \o r.log]

\* The options argument of a call: nil, or the caller's options value.
Arg(argNil) == IF argNil THEN NilOpts ELSE opts

\* NodesService.GetNodes(opts)
GetNodes(argNil) ==
  /\ pc = "idle"
  /\ \E env \in ListEnvs(Arg(argNil)) :
       /\ fr' = PageCall("GetNodes", "nodes", Arg(argNil), env)
       /\ opts' = IF argNil THEN opts ELSE fr'.o
  /\ fr2' = NoFrame
  /\ pc' = "returned"
  /\ UNCHANGED <<pages, wk, up, dl, ac>>

\* Folder.GetChildren(opts)
GetChildren(argNil) ==
  /\ pc = "idle"
  /\ \E env \in ListEnvs(Arg(argNil)) :
       /\ fr' = PageCall("GetChildren", "nodes/folder1/children", Arg(argNil), env)
       /\ opts' = IF argNil THEN opts ELSE fr'.o
  /\ fr2' = NoFrame
  /\ pc' = "returned"
  /\ UNCHANGED <<pages, wk, up, dl, ac>>

\* NodesService.GetAllNodes(opts), up to the loop of listAllNodes
GetAllNodes(argNil) ==
  /\ pc = "idle"
  /\ fr' = listAllNodes("GetAllNodes", "nodes", Arg(argNil))
  /\ fr2' = NoFrame
  /\ pc' = "listAll"
  /\ UNCHANGED <<pages, opts, wk, up, dl, ac>>

\* Folder.GetAllChildren(opts), up to the loop of listAllNodes
GetAllChildren(argNil) ==
  /\ pc = "idle"
  /\ fr' = listAllNodes("GetAllChildren", "nodes/folder1/children", Arg(argNil))
  /\ fr2' = NoFrame
  /\ pc' = "listAll"
  /\ UNCHANGED <<pages, opts, wk, up, dl, ac>>

\* One iteration of the loop of the running listAllNodes.
ListAllLoop ==
  /\ pc = "listAll"
  /\ Len(fr.log) < MaxReq \/ reachedEndTest(fr.o)
  /\ \E env \in ListEnvs(fr.o) :
       /\ fr' = listAllLoop(fr, env)
       /\ opts' = IF fr.argNil THEN opts ELSE fr'.o
       /\ pc' = IF fr'.done THEN "returned" ELSE "listAll"
  /\ UNCHANGED <<pages, fr2, wk, up, dl, ac>>

\* The answers of a server that puts a continuation token on every response.
EndlessEnvs == {[Env("none") EXCEPT !.more = TRUE]}

\* One iteration of the loop of the running listAllNodes, against a server
\* that puts a continuation token on its response.
ListAllLoopMore ==
  /\ pc = "listAll"
  /\ Len(fr.log) < MaxReq \/ reachedEndTest(fr.o)
  /\ \E env \in EndlessEnvs :
       /\ fr' = listAllLoop(fr, env)
       /\ opts' = IF fr.argNil THEN opts ELSE fr'.o
       /\ pc' = IF fr'.done THEN "returned" ELSE "listAll"
  /\ UNCHANGED <<pages, fr2, wk, up, dl, ac>>

\* Two listAllNodes against the same server, one with nil and one with fresh
\* options of its own, up to their loops.
PairBegin ==
  /\ pc = "idle"
  /\ \E url \in Urls :
       /\ fr' = listAllNodes("listAllNodes", url, NilOpts)
       /\ fr2' = listAllNodes("listAllNodes", url, FreshOpts)
  /\ pc' = "pair"
  /\ UNCHANGED <<pages, opts, wk, up, dl, ac>>

\* One iteration of each of the two calls, the same fault happening to both.
PairLoop ==
  /\ pc = "pair"
  /\ Len(fr.log) < MaxReq /\ Len(fr2.log) < MaxReq
  /\ \E env \in ListEnvs(FreshOpts) :
       /\ fr' = IF fr.done THEN fr ELSE listAllLoop(fr, env)
       /\ fr2' = IF fr2.done THEN fr2 ELSE listAllLoop(fr2, env)
       /\ pc' = IF fr'.done /\ fr2'.done THEN "returned" ELSE "pair"
  /\ UNCHANGED <<pages, opts, wk, up, dl, ac>>

\* ---------------------------------------------------------------- navigation

\* Node.IsFile
IsFile(n) == n.Kind # Nil /\ n.Kind = "FILE"

\* Node.IsFolder
IsFolder(n) == n.Kind # Nil /\ n.Kind = "FOLDER"

\* The Typed that takes every node that is not a folder for a file.
TypedUnknownAsFile(n) ==
  IF IsFolder(n) THEN [view |-> "Folder", node |-> n] ELSE [view |-> "File", node |-> n]

\* The Typed that knows files only.
TypedFileOnly(n) ==
  IF IsFile(n) THEN [view |-> "File", node |-> n] ELSE [view |-> "Node", node |-> n]

\* Node.Typed: the File or Folder view of the node, or the node itself.
Typed(n) ==
  IF IsFile(n) THEN [view |-> "File", node |-> n]
  ELSE IF IsFolder(n) THEN [view |-> "Folder", node |-> n]
  ELSE [view |-> "Node", node |-> n]

\* The nil *Folder.
NilFolder == [view |-> "Folder", node |-> NilNode]

\* The folder the caller starts from.
Root ==
  [view |-> "Folder",
   node |-> [null |-> FALSE, Id |-> "root", Name |-> "", Kind |-> "FOLDER", service |-> "s"]]

\* What the environment can do during a lookup by name: a fault, or an answer
\* of 0..MaxMatches records (or without "data"), with or without a token.
LookupEnvs ==
  {Env(fault) : fault \in Faults \ {"none"}}
  \cup {[fault |-> "none", absent |-> TRUE, n |-> 0, kind |-> "FILE", more |-> more] :
          more \in BOOLEAN}
  \cup {[fault |-> "none", absent |-> FALSE, n |-> 0, kind |-> "FILE", more |-> more] :
          more \in BOOLEAN}
  \cup {[fault |-> "none", absent |-> FALSE, n |-> n, kind |-> kind, more |-> more] :
          n \in 1..MaxMatches, kind \in Kinds, more \in BOOLEAN}

\* What a lookup gives back.
Found(node, resp, err, log) == [node |-> node, resp |-> resp, err |-> err, log |-> log]

\* The GetNode that takes the first match when there are several.
GetNodeFirstMatch(f, name, env) ==
  LET filter == <<"parents", f.node.Id, "name", name>>
      r == listNodes("nodes", [FreshOpts EXCEPT !.Filters = filter], env)
  IN IF r.err # NoErr THEN Found(NilNode, r.resp, r.err, r.log)
     ELSE IF Len(r.nodes.elems) < 1
     THEN Found(NilNode, r.resp, [kind |-> "NoNodeFound", name |-> name, count |-> 0], r.log)
     ELSE Found(r.nodes.elems[1], r.resp, NoErr, r.log)

\* What GetNode makes of r, the outcome of its GetNodes call for name: the
\* error of the call, an error unless exactly one node came back, or the node.
exactlyOne(r, name) ==
  IF r.err # NoErr THEN Found(NilNode, r.resp, r.err, r.log)
  ELSE IF Len(r.nodes.elems) < 1
  THEN Found(NilNode, r.resp, [kind |-> "NoNodeFound", name |-> name, count |-> 0], r.log)
  ELSE IF Len(r.nodes.elems) > 1
  THEN Found(NilNode, r.resp,
             [kind |-> "TooManyNodes", name |-> name, count |-> Len(r.nodes.elems)], r.log)
  ELSE Found(r.nodes.elems[1], r.resp, NoErr, r.log)

\* The GetNode that asks for the next page when the response carries a
\* continuation token, and decides on the nodes of both pages.
GetNodeNextPage(f, name, env) ==
  LET filter == <<"parents", f.node.Id, "name", name>>
      r  == listNodes("nodes", [FreshOpts EXCEPT !.Filters = filter], env)
      r2 == listNodes("nodes", r.opts, env)
  IN IF r.err = NoErr /\ ~r.opts.reachedEnd
     THEN exactlyOne([r EXCEPT !.nodes = append(r.nodes, r2.nodes), !.log = r.log \o r2.log],
                     name)
     ELSE exactlyOne(r, name)

\* Folder.GetNode(name): one GetNodes call filtered by parent and name; an
\* error unless exactly one node comes back.
GetNode(f, name, env) ==
  LET filter == <<"parents", f.node.Id, "name", name>> IN
  exactlyOne(listNodes("nodes", [FreshOpts EXCEPT !.Filters = filter], env), name)

\* The GetFolder that hands back whatever node was found as a folder.
GetFolderAnyKind(f, name, env) ==
  LET r == GetNode(f, name, env) IN
  IF r.err # NoErr THEN [folder |-> NilFolder, resp |-> r.resp, err |-> r.err, log |-> r.log]
  ELSE [folder |-> [view |-> "Folder", node |-> r.node], resp |-> r.resp, err |-> NoErr,
        log |-> r.log]

\* What GetFolder makes of r, the outcome of its GetNode call for name.
asFolder(r, name) ==
  IF r.err # NoErr THEN [folder |-> NilFolder, resp |-> r.resp, err |-> r.err, log |-> r.log]
  ELSE IF Typed(r.node).view # "Folder"
  THEN [folder |-> NilFolder, resp |-> r.resp,
        err |-> [kind |-> "NotAFolder", name |-> name, count |-> 0], log |-> r.log]
  ELSE [folder |-> Typed(r.node), resp |-> r.resp, err |-> NoErr, log |-> r.log]

\* Folder.GetFolder(name): GetNode, then the Folder view or an error.
GetFolder(f, name, env) == asFolder(GetNode(f, name, env), name)

\* The nil *File.
NilFile == [view |-> "File", node |-> NilNode]

\* What GetFile makes of r, the outcome of its GetNode call for name.
asFile(r, name) ==
  IF r.err # NoErr THEN [file |-> NilFile, resp |-> r.resp, err |-> r.err, log |-> r.log]
  ELSE IF Typed(r.node).view # "File"
  THEN [file |-> NilFile, resp |-> r.resp,
        err |-> [kind |-> "NotAFile", name |-> name, count |-> 0], log |-> r.log]
  ELSE [file |-> Typed(r.node), resp |-> r.resp, err |-> NoErr, log |-> r.log]

\* Folder.GetFile(name): GetNode, then the File view or an error.
GetFile(f, name, env) == asFile(GetNode(f, name, env), name)

\* A lookup or walk: the operation, the folder it starts from (f), the names,
\* the index of the name to resolve next (i), the folder reached (fp), the
\* responses collected, and once done the node and error returned; log holds
\* the exchanges it had with the transport.
NoWalk ==
  [op |-> "none", f |-> NilFolder, names |-> <<>>, i |-> 1, fp |-> NilFolder, resps |-> <<>>,
   done |-> TRUE, node |-> NilNode, err |-> NoErr, log |-> <<>>]

\* The WalkNodes that returns no node for an empty list of names.
walkNodesEmptyNil(f, names) ==
  [op |-> "WalkNodes", f |-> f, names |-> names, i |-> 1, fp |-> f, resps |-> <<>>,
   done |-> Len(names) = 0, node |-> NilNode, err |-> NoErr, log |-> <<>>]

\* WalkNodes up to its loop: an empty list of names returns at once.
walkNodes(f, names) ==
  [op |-> "WalkNodes", f |-> f, names |-> names, i |-> 1, fp |-> f, resps |-> <<>>,
   done |-> Len(names) = 0, node |-> IF Len(names) = 0 THEN f.node ELSE NilNode,
   err |-> NoErr, log |-> <<>>]

\* The step that hands back the folder the walk started from when it fails.
walkLoopReturnStart(w, env) ==
  IF w.i < Len(w.names)
  THEN LET r == GetFolder(w.fp, w.names[w.i], env) IN
       IF r.err # NoErr
       THEN [w EXCEPT !.resps = Append(@, r.resp), !.log = @ \o r.log, !.done = TRUE,
                      !.node = w.f.node, !.err = r.err]
       ELSE [w EXCEPT !.resps = Append(@, r.resp), !.log = @ \o r.log, !.fp = r.folder,
                      !.i = @ + 1]
  ELSE LET r == GetNode(w.fp, w.names[Len(w.names)], env) IN
       IF r.err # NoErr
       THEN [w EXCEPT !.resps = Append(@, r.resp), !.log = @ \o r.log, !.done = TRUE,
                      !.node = w.f.node, !.err = r.err]
       ELSE [w EXCEPT !.resps = Append(@, r.resp), !.log = @ \o r.log, !.done = TRUE,
                      !.node = r.node, !.err = NoErr]

\* The step that tests the error before it collects the response.
walkLoopErrBeforeAppend(w, env) ==
  IF w.i < Len(w.names)
  THEN LET r == GetFolder(w.fp, w.names[w.i], env) IN
       IF r.err # NoErr
       THEN [w EXCEPT !.log = @ \o r.log, !.done = TRUE, !.node = w.fp.node, !.err = r.err]
       ELSE [w EXCEPT !.resps = Append(@, r.resp), !.log = @ \o r.log, !.fp = r.folder,
                      !.i = @ + 1]
  ELSE LET r == GetNode(w.fp, w.names[Len(w.names)], env) IN
       IF r.err # NoErr
       THEN [w EXCEPT !.log = @ \o r.log, !.done = TRUE, !.node = w.fp.node, !.err = r.err]
       ELSE [w EXCEPT !.resps = Append(@, r.resp), !.log = @ \o r.log, !.done = TRUE,
                      !.node = r.node, !.err = NoErr]

\* The step that looks every name up in the folder the walk started from.
walkLoopScopeStart(w, env) ==
  IF w.i < Len(w.names)
  THEN LET r == GetFolder(w.f, w.names[w.i], env) IN
       IF r.err # NoErr
       THEN [w EXCEPT !.resps = Append(@, r.resp), !.log = @ \o r.log, !.done = TRUE,
                      !.node = w.fp.node, !.err = r.err]
       ELSE [w EXCEPT !.resps = Append(@, r.resp), !.log = @ \o r.log, !.fp = r.folder,
                      !.i = @ + 1]
  ELSE LET r == GetNode(w.f, w.names[Len(w.names)], env) IN
       IF r.err # NoErr
       THEN [w EXCEPT !.resps = Append(@, r.resp), !.log = @ \o r.log, !.done = TRUE,
                      !.node = w.fp.node, !.err = r.err]
       ELSE [w EXCEPT !.resps = Append(@, r.resp), !.log = @ \o r.log, !.done = TRUE,
                      !.node = r.node, !.err = NoErr]

\* The walk w after GetFolder has returned r for a name that is not the last.
walkFolder(w, r) ==
  IF r.err # NoErr
  THEN [w EXCEPT !.resps = Append(@, r.resp), !.log = @ \o r.log, !.done = TRUE,
                 !.node = w.fp.node, !.err = r.err]
  ELSE [w EXCEPT !.resps = Append(@, r.resp), !.log = @ \o r.log, !.fp = r.folder,
                 !.i = @ + 1]

\* The walk w after GetNode has returned r for the last name.
walkLast(w, r) ==
  IF r.err # NoErr
  THEN [w EXCEPT !.resps = Append(@, r.resp), !.log = @ \o r.log, !.done = TRUE,
                 !.node = w.fp.node, !.err = r.err]
  ELSE [w EXCEPT !.resps = Append(@, r.resp), !.log = @ \o r.log, !.done = TRUE,
                 !.node = r.node, !.err = NoErr]

\* One name of WalkNodes: GetFolder for every name but the last, GetNode for
\* the last; on an error the node of the folder reached so far is returned.
walkLoop(w, env) ==
  IF w.i < Len(w.names)
  THEN walkFolder(w, GetFolder(w.fp, w.names[w.i], env))
  ELSE walkLast(w, GetNode(w.fp, w.names[Len(w.names)], env))

\* Folder.GetNode(name) on the starting folder, as one call.
GetNodeCall(name) ==
  /\ pc = "idle"
  /\ \E env \in LookupEnvs : \E r \in {GetNode(Root, name, env)} :
       wk' = [op |-> "GetNode", f |-> Root, names |-> <<name>>, i |-> 1, fp |-> Root,
              resps |-> <<r.resp>>, done |-> TRUE, node |-> r.node, err |-> r.err,
              log |-> r.log]
  /\ pc' = "returned"
  /\ UNCHANGED <<pages, opts, fr, fr2, up, dl, ac>>

\* Folder.GetFolder(name) on the starting folder, as one call.
GetFolderCall(name) ==
  /\ pc = "idle"
  /\ \E env \in LookupEnvs : \E r \in {GetFolder(Root, name, env)} :
       wk' = [op |-> "GetFolder", f |-> Root, names |-> <<name>>, i |-> 1, fp |-> Root,
              resps |-> <<r.resp>>, done |-> TRUE, node |-> r.folder.node, err |-> r.err,
              log |-> r.log]
  /\ pc' = "returned"
  /\ UNCHANGED <<pages, opts, fr, fr2, up, dl, ac>>

\* Folder.GetFile(name) on the starting folder, as one call.
GetFileCall(name) ==
  /\ pc = "idle"
  /\ \E env \in LookupEnvs : \E r \in {GetFile(Root, name, env)} :
       wk' = [op |-> "GetFile", f |-> Root, names |-> <<name>>, i |-> 1, fp |-> Root,
              resps |-> <<r.resp>>, done |-> TRUE, node |-> r.file.node, err |-> r.err,
              log |-> r.log]
  /\ pc' = "returned"
  /\ UNCHANGED <<pages, opts, fr, fr2, up, dl, ac>>

\* The caller classifies the node a GetNode call returned: n.Typed(),
\* n.IsFile(), n.IsFolder().
TypedCall ==
  /\ pc = "returned" /\ wk.op = "GetNode" /\ ~wk.node.null
  /\ wk' = [op |-> "Typed", node |-> wk.node, typed |-> Typed(wk.node),
            isFile |-> IsFile(wk.node), isFolder |-> IsFolder(wk.node)]
  /\ UNCHANGED <<pages, opts, pc, fr, fr2, up, dl, ac>>

\* Folder.WalkNodes(names...) on the starting folder, up to its loop.
WalkNodes(names) ==
  /\ pc = "idle"
  /\ wk' = walkNodes(Root, names)
  /\ pc' = IF wk'.done THEN "returned" ELSE "walk"
  /\ UNCHANGED <<pages, opts, fr, fr2, up, dl, ac>>

\* One name of the running WalkNodes.
WalkLoop ==
  /\ pc = "walk"
  /\ \E env \in LookupEnvs :
       /\ wk' = walkLoop(wk, env)
       /\ pc' = IF wk'.done THEN "returned" ELSE "walk"
  /\ UNCHANGED <<pages, opts, fr, fr2, up, dl, ac>>

\* ---------------------------------------------------------------------------
\* Download and Upload of content.

\* The local destination and the last Download: fs is the file at the path
\* ("absent", the "old" file that was there, "created" and still without the
\* content, or holding the "content"); pre is fs before the call, log the
\* requests handed to the transport.
NoDownload ==
  [fs |-> "absent", op |-> "none", pre |-> "absent", fault |-> "none", log |-> <<>>,
   resp |-> Nil, err |-> Nil]

\* What can go wrong during a Download: the request cannot be built, the file
\* cannot be opened for a reason of its own, the transport fails.
DownloadFaults == {"none", "reqerr", "openerr", "neterr"}

\* The errors of the local file system.
LocalErrs == {"exists", "openerr"}

\* The file whose content is downloaded.
TheFile ==
  [view |-> "File",
   node |-> [null |-> FALSE, Id |-> "root.1", Name |-> "a", Kind |-> "FILE", service |-> "s"]]

\* The Download that opens the destination without O_EXCL.
DownloadOverwrite(f, d, fault) ==
  LET req == [method |-> "GET", url |-> "nodes/" \o f.node.Id \o "/content"]
      call == [d EXCEPT !.op = "Download", !.pre = d.fs, !.fault = fault, !.log = <<>>,
                        !.resp = Nil]
  IN IF fault = "reqerr" THEN [call EXCEPT !.err = "reqerr"]
     ELSE IF fault = "openerr" THEN [call EXCEPT !.err = "openerr"]
     ELSE IF fault = "neterr"
     THEN [call EXCEPT !.fs = "created", !.log = <<req>>, !.err = "neterr"]
     ELSE [call EXCEPT !.fs = "content", !.log = <<req>>, !.resp = "resp", !.err = Nil]

\* File.Download(path): build the request, create the destination (an error
\* if it exists), then have the transport copy the content into it.
Download(f, d, fault) ==
  LET req == [method |-> "GET", url |-> "nodes/" \o f.node.Id \o "/content"]
      call == [d EXCEPT !.op = "Download", !.pre = d.fs, !.fault = fault, !.log = <<>>,
                        !.resp = Nil]
  IN IF fault = "reqerr" THEN [call EXCEPT !.err = "reqerr"]
     ELSE IF fault = "openerr" THEN [call EXCEPT !.err = "openerr"]
     ELSE IF d.fs # "absent" THEN [call EXCEPT !.err = "exists"]
     ELSE IF fault = "neterr"
     THEN [call EXCEPT !.fs = "created", !.log = <<req>>, !.err = "neterr"]
     ELSE [call EXCEPT !.fs = "content", !.log = <<req>>, !.resp = "resp", !.err = Nil]

\* File.Download(path), as one call.
DownloadCall ==
  /\ pc = "idle"
  /\ \E fault \in DownloadFaults : dl' = Download(TheFile, dl, fault)
  /\ pc' = "returned"
  /\ UNCHANGED <<pages, opts, fr, fr2, wk, up, ac>>

\* The capacity of the completion channel of Upload.
ChanCap == 1

\* An Upload: cpc and ppc are the positions of the caller and of the producer
\* goroutine; err is the caller's variable err, which the producer assigns
\* too; wf is the result of WriteField before it is stored; chan is errChan;
\* body is the read end of the pipe as the transport holds it ("unread",
\* "reading", "closed"); wclosed and inOpen are the write end and the local
\* file. cerr (what the caller last assigned to err), doErr (what Do
\* returned), perr (what failed in the producer) and psent (what it sent)
\* record the history; file, resp and ret are what Upload returned.
NoUpload ==
  [cpc |-> "none", ppc |-> "none", err |-> Nil, wf |-> Nil, chan |-> <<>>, body |-> "none",
   wclosed |-> FALSE, inOpen |-> FALSE, cerr |-> Nil, doErr |-> "pending", perr |-> Nil,
   psent |-> "none",
   file |-> FALSE, resp |-> Nil, ret |-> Nil]

\* Folder.Upload(path, name) up to the start of the producer: os.Open, the
\* pipe, the channel, go func().
Upload ==
  /\ pc = "idle" /\ up.ppc \in {"none", "done"}
  /\ \E e \in {Nil, "openerr"} :
       IF e # Nil
       THEN /\ up' = [NoUpload EXCEPT !.cpc = "returned", !.err = e, !.cerr = e, !.ret = e]
            /\ pc' = "returned"
       ELSE /\ up' = [NoUpload EXCEPT !.cpc = "newreq", !.ppc = "writeField", !.body = "unread",
                                     !.inOpen = TRUE]
            /\ pc' = "upload"
  /\ UNCHANGED <<pages, opts, fr, fr2, wk, dl, ac>>

\* req, err := NewContentRequest(...): the caller assigns err.
UploadNewRequest ==
  /\ pc = "upload" /\ up.cpc = "newreq"
  /\ \E e \in {Nil, "reqerr"} : up' = [up EXCEPT !.err = e, !.cerr = e, !.cpc = "chkreq"]
  /\ UNCHANGED <<pages, opts, pc, fr, fr2, wk, dl, ac>>

\* if err != nil, after NewContentRequest and after Do: the caller reads err.
UploadCheck ==
  /\ pc = "upload" /\ up.cpc \in {"chkreq", "chkdo"}
  /\ up' = [up EXCEPT !.cpc = IF up.err # Nil THEN "ret"
                              ELSE IF up.cpc = "chkreq" THEN "do" ELSE "recv"]
  /\ UNCHANGED <<pages, opts, pc, fr, fr2, wk, dl, ac>>

\* return nil, nil, err: the caller reads err again.
UploadReturnErr ==
  /\ pc = "upload" /\ up.cpc = "ret"
  /\ up' = [up EXCEPT !.cpc = "returned", !.file = FALSE, !.resp = Nil, !.ret = up.err]
  /\ pc' = "returned"
  /\ UNCHANGED <<pages, opts, fr, fr2, wk, dl, ac>>

\* client.Do(req, file) begins: the transport starts to read the body.
UploadDo ==
  /\ pc = "upload" /\ up.cpc = "do"
  /\ up' = [up EXCEPT !.cpc = "doing", !.body = "reading"]
  /\ UNCHANGED <<pages, opts, pc, fr, fr2, wk, dl, ac>>

\* resp, err := client.Do(req, file) returns: the caller assigns err.
UploadDoReturn ==
  /\ pc = "upload" /\ up.cpc = "doing"
  /\ \E e \in {Nil, "httperr"} :
       up' = [up EXCEPT !.cpc = "chkdo", !.err = e, !.cerr = e, !.doErr = e,
                        !.resp = IF e = Nil THEN "resp" ELSE Nil]
  /\ UNCHANGED <<pages, opts, pc, fr, fr2, wk, dl, ac>>

\* err = <-errChan
UploadReceive ==
  /\ pc = "upload" /\ up.cpc = "recv" /\ up.chan # <<>>
  /\ up' = [up EXCEPT !.cpc = "chkrecv", !.err = Head(up.chan), !.cerr = Head(up.chan),
                   !.chan = Tail(up.chan)]
  /\ UNCHANGED <<pages, opts, pc, fr, fr2, wk, dl, ac>>

\* if err != nil { return nil, nil, err }; return file, resp, err
UploadFinish ==
  /\ pc = "upload" /\ up.cpc = "chkrecv"
  /\ up' = IF up.err # Nil
           THEN [up EXCEPT !.cpc = "returned", !.file = FALSE, !.resp = Nil, !.ret = up.err]
           ELSE [up EXCEPT !.cpc = "returned", !.file = TRUE, !.ret = up.err]
  /\ pc' = "returned"
  /\ UNCHANGED <<pages, opts, fr, fr2, wk, dl, ac>>

\* The transport closes the request body: at its end, after an error, or
\* after the server has answered.
TransportClose ==
  /\ up.body = "reading"
  /\ up' = [up EXCEPT !.body = "closed"]
  /\ UNCHANGED <<pages, opts, pc, fr, fr2, wk, dl, ac>>

\* What a write into the pipe gives the producer once it is over: nil when
\* the transport has read it, io.ErrClosedPipe when the transport has closed
\* the body. The write blocks while the body is unread.
PipeWritten == up.body \in {"reading", "closed"}
PipeErr == IF up.body = "closed" THEN "closedpipe" ELSE Nil

\* The producer leaves with the error e on the channel.
ProducerSends(e) ==
  [up EXCEPT !.chan = Append(@, e), !.psent = e, !.ppc = "defer"]

\* writer.WriteField("metadata", ...) is over; its result is yet to be stored.
ProducerWriteField ==
  /\ up.ppc = "writeField" /\ PipeWritten
  /\ up' = [up EXCEPT !.ppc = "store", !.wf = PipeErr, !.perr = PipeErr]
  /\ UNCHANGED <<pages, opts, pc, fr, fr2, wk, dl, ac>>

\* err = writer.WriteField(...): the producer assigns the caller's err.
ProducerStore ==
  /\ up.ppc = "store"
  /\ up' = [up EXCEPT !.ppc = "check", !.err = up.wf]
  /\ UNCHANGED <<pages, opts, pc, fr, fr2, wk, dl, ac>>

\* if err != nil: the producer reads the caller's err.
ProducerCheck ==
  /\ up.ppc = "check"
  /\ up' = [up EXCEPT !.ppc = IF up.err # Nil THEN "send" ELSE "createFormFile"]
  /\ UNCHANGED <<pages, opts, pc, fr, fr2, wk, dl, ac>>

\* errChan <- err; return: the producer reads the caller's err again.
ProducerSend ==
  /\ up.ppc = "send" /\ Len(up.chan) < ChanCap
  /\ up' = ProducerSends(up.err)
  /\ UNCHANGED <<pages, opts, pc, fr, fr2, wk, dl, ac>>

\* part, err := writer.CreateFormFile(...), with an err of the producer's own.
ProducerCreateFormFile ==
  /\ up.ppc = "createFormFile" /\ PipeWritten /\ Len(up.chan) < ChanCap
  /\ up' = IF PipeErr # Nil THEN [ProducerSends(PipeErr) EXCEPT !.perr = PipeErr]
           ELSE [up EXCEPT !.ppc = "copy"]
  /\ UNCHANGED <<pages, opts, pc, fr, fr2, wk, dl, ac>>

\* io.Copy(part, in): reading the local file can fail, and so can the pipe.
ProducerCopy ==
  /\ up.ppc = "copy" /\ Len(up.chan) < ChanCap
  /\ \/ up' = [ProducerSends("readerr") EXCEPT !.perr = "readerr"]
     \/ /\ PipeWritten
        /\ up' = IF PipeErr # Nil THEN [ProducerSends(PipeErr) EXCEPT !.perr = PipeErr]
                 ELSE [up EXCEPT !.ppc = "close"]
  /\ UNCHANGED <<pages, opts, pc, fr, fr2, wk, dl, ac>>

\* errChan <- writer.Close()
ProducerClose ==
  /\ up.ppc = "close" /\ PipeWritten /\ Len(up.chan) < ChanCap
  /\ up' = [ProducerSends(PipeErr) EXCEPT !.perr = PipeErr]
  /\ UNCHANGED <<pages, opts, pc, fr, fr2, wk, dl, ac>>

\* The deferred in.Close() and bodyWriter.Close().
ProducerDefer ==
  /\ up.ppc = "defer"
  /\ up' = [up EXCEPT !.ppc = "done", !.inOpen = FALSE, !.wclosed = TRUE]
  /\ UNCHANGED <<pages, opts, pc, fr, fr2, wk, dl, ac>>

\* ---------------------------------------------------------------------------
\* The account.

\* A member of a JSON object: absent, or a string or a number, v being its text.
Absent == [t |-> "absent", v |-> ""]
Str(v) == [t |-> "string", v |-> v]
Num(v) == [t |-> "number", v |-> v]

\* The numbers that fit a uint64, among those the server sends.
Uint64Texts == {"0", "5368709120", "4069088896", "18446744073709551615"}

\* The texts that are a time in RFC 3339, among those the server sends.
TimeTexts == {"2014-08-13T23:01:47.479Z"}

\* The nil pointer of a decoded member, and a pointer to a value.
NilPtr == [nil |-> TRUE, val |-> ""]
Ptr(v) == [nil |-> FALSE, val |-> v]

\* The JSON decoder on one member with a *string, *uint64 or *time.Time
\* target: ok is FALSE when the member cannot be stored in the target; an
\* absent member leaves the pointer nil.
decodeString(m) ==
  IF m.t = "absent" THEN [ok |-> TRUE, ptr |-> NilPtr]
  ELSE IF m.t = "string" THEN [ok |-> TRUE, ptr |-> Ptr(m.v)]
  ELSE [ok |-> FALSE, ptr |-> NilPtr]

decodeUint64(m) ==
  IF m.t = "absent" THEN [ok |-> TRUE, ptr |-> NilPtr]
  ELSE IF m.t = "number" /\ m.v \in Uint64Texts THEN [ok |-> TRUE, ptr |-> Ptr(m.v)]
  ELSE [ok |-> FALSE, ptr |-> NilPtr]

decodeTime(m) ==
  IF m.t = "absent" THEN [ok |-> TRUE, ptr |-> NilPtr]
  ELSE IF m.t = "string" /\ m.v \in TimeTexts THEN [ok |-> TRUE, ptr |-> Ptr(m.v)]
  ELSE [ok |-> FALSE, ptr |-> NilPtr]

\* A decoded account value: null for the nil pointer, else the three members
\* (AccountInfo has two; AccountUsage is kept to lastCalculated and the byte
\* counts of two of its categories).
NoValue == [null |-> TRUE, a |-> NilPtr, b |-> NilPtr, c |-> NilPtr]

\* The decoding of a body into AccountInfo, AccountQuota, AccountUsage.
decodeInfo(body) ==
  [ok |-> decodeString(body.a).ok /\ decodeString(body.b).ok,
   value |-> [null |-> FALSE, a |-> decodeString(body.a).ptr, b |-> decodeString(body.b).ptr,
              c |-> NilPtr]]

decodeQuota(body) ==
  [ok |-> decodeUint64(body.a).ok /\ decodeTime(body.b).ok /\ decodeUint64(body.c).ok,
   value |-> [null |-> FALSE, a |-> decodeUint64(body.a).ptr, b |-> decodeTime(body.b).ptr,
              c |-> decodeUint64(body.c).ptr]]

decodeUsage(body) ==
  [ok |-> decodeTime(body.a).ok /\ decodeUint64(body.b).ok /\ decodeUint64(body.c).ok,
   value |-> [null |-> FALSE, a |-> decodeTime(body.a).ptr, b |-> decodeUint64(body.b).ptr,
              c |-> decodeUint64(body.c).ptr]]

\* The bodies the server can hold for account/info (termsOfUse, status),
\* account/quota (quota, lastCalculated, available) and account/usage
\* (lastCalculated, doc.total.bytes, photo.total.bytes).
InfoBodies ==
  {[a |-> a, b |-> b, c |-> Absent] :
     a \in {Absent, Str("1.0.0")}, b \in {Absent, Str("ACTIVE"), Num("1")}}
QuotaBodies ==
  {[a |-> a, b |-> b, c |-> c] :
     a \in {Absent, Num("5368709120"), Num("-1")},
     b \in {Str("2014-08-13T23:01:47.479Z")},
     c \in {Absent, Num("4069088896"), Num("18446744073709551616")}}
UsageBodies ==
  {[a |-> a, b |-> b, c |-> Absent] :
     a \in {Absent, Str("2014-08-13T23:01:47.479Z")}, b \in {Absent, Num("0")}}

\* What can go wrong during an account call apart from the decoding: the
\* request cannot be built, the transport fails.
AccountFaults == {"none", "reqerr", "neterr"}

\* The account on the server and the last account call: its requests, and the
\* value, response and error it returned.
NoAccount ==
  [info |-> [a |-> Absent, b |-> Absent, c |-> Absent],
   quota |-> [a |-> Absent, b |-> Absent, c |-> Absent],
   usage |-> [a |-> Absent, b |-> Absent, c |-> Absent],
   op |-> "none", fault |-> "none", log |-> <<>>, value |-> NoValue, resp |-> Nil, err |-> Nil]

\* An accessor that hands back what was decoded although the decoding failed.
accountCallKeepValue(a, op, path, fault, d) ==
  LET call == [a EXCEPT !.op = op, !.fault = fault, !.log = <<>>, !.value = NoValue,
                        !.resp = Nil, !.err = Nil]
      req == [method |-> "GET", url |-> path]
  IN IF fault = "reqerr" THEN [call EXCEPT !.err = "reqerr"]
     ELSE IF fault = "neterr" THEN [call EXCEPT !.log = <<req>>, !.err = "neterr"]
     ELSE IF ~d.ok THEN [call EXCEPT !.log = <<req>>, !.value = d.value, !.resp = "resp",
                                     !.err = "decerr"]
     ELSE [call EXCEPT !.log = <<req>>, !.value = d.value, !.resp = "resp"]

\* The body of every accessor: NewMetadataRequest("GET", path), client.Do into
\* a new value (d is what the decoding of the server's body gives), nil and
\* the error when either fails.
accountCall(a, op, path, fault, d) ==
  LET call == [a EXCEPT !.op = op, !.fault = fault, !.log = <<>>, !.value = NoValue,
                        !.resp = Nil, !.err = Nil]
      req == [method |-> "GET", url |-> path]
  IN IF fault = "reqerr" THEN [call EXCEPT !.err = "reqerr"]
     ELSE IF fault = "neterr" THEN [call EXCEPT !.log = <<req>>, !.err = "neterr"]
     ELSE IF ~d.ok THEN [call EXCEPT !.log = <<req>>, !.resp = "resp", !.err = "decerr"]
     ELSE [call EXCEPT !.log = <<req>>, !.value = d.value, !.resp = "resp"]

\* AccountService.GetInfo()
GetInfo ==
  /\ pc = "idle"
  /\ \E fault \in AccountFaults :
       ac' = accountCall(ac, "GetInfo", "account/info", fault, decodeInfo(ac.info))
  /\ pc' = "returned"
  /\ UNCHANGED <<pages, opts, fr, fr2, wk, up, dl>>

\* AccountService.GetQuota()
GetQuota ==
  /\ pc = "idle"
  /\ \E fault \in AccountFaults :
       ac' = accountCall(ac, "GetQuota", "account/quota", fault, decodeQuota(ac.quota))
  /\ pc' = "returned"
  /\ UNCHANGED <<pages, opts, fr, fr2, wk, up, dl>>

\* AccountService.GetUsage()
GetUsage ==
  /\ pc = "idle"
  /\ \E fault \in AccountFaults :
       ac' = accountCall(ac, "GetUsage", "account/usage", fault, decodeUsage(ac.usage))
  /\ pc' = "returned"
  /\ UNCHANGED <<pages, opts, fr, fr2, wk, up, dl>>

\* The call has returned: the caller takes what it returned and is free to
\* make the next call, with the same options.
Return ==
  /\ pc = "returned"
  /\ pc' = "idle"
  /\ fr' = NoFrame
  /\ fr2' = NoFrame
  /\ wk' = NoWalk
  /\ UNCHANGED <<pages, opts, up, dl, ac>>

Init ==
  /\ pages \in Listings
  /\ opts = FreshOpts
  /\ pc = "idle"
  /\ fr = NoFrame
  /\ fr2 = NoFrame
  /\ wk = NoWalk
  /\ up = NoUpload
  /\ dl = NoDownload
  /\ ac = NoAccount

Next ==
  \/ \E argNil \in BOOLEAN : GetNodes(argNil)
  \/ \E argNil \in BOOLEAN : GetChildren(argNil)
  \/ \E argNil \in BOOLEAN : GetAllNodes(argNil)
  \/ \E argNil \in BOOLEAN : GetAllChildren(argNil)
  \/ ListAllLoop
  \/ PairBegin
  \/ PairLoop
  \/ Return

Spec == Init /\ [][Next]_vars

\* The navigation: lookups and walks from the starting folder; the paged
\* listing plays no part in it.
InitWalk ==
  /\ pages = <<Slice(<<>>)>>
  /\ opts = FreshOpts
  /\ pc = "idle"
  /\ fr = NoFrame
  /\ fr2 = NoFrame
  /\ wk = NoWalk
  /\ up = NoUpload
  /\ dl = NoDownload
  /\ ac = NoAccount

NextWalk ==
  \/ \E name \in Names : GetNodeCall(name)
  \/ \E name \in Names : GetFolderCall(name)
  \/ \E name \in Names : GetFileCall(name)
  \/ TypedCall
  \/ \E names \in NameSeqs : WalkNodes(names)
  \/ WalkLoop
  \/ Return

SpecWalk == InitWalk /\ [][NextWalk]_vars

\* The longest listings whose pages are alike: all without data, or all of one
\* record.
UniformListings ==
  {l \in Listings : Len(l) = MaxPages /\ \E d \in {NilSlice, Slice(<<NodeRec(1)>>)} :
                                           \A j \in 1..Len(l) : l[j] = d}

\* Listing and navigation by one caller, one call after the other, against a
\* server whose pages are alike.
InitBoth ==
  /\ pages \in UniformListings
  /\ opts = FreshOpts
  /\ pc = "idle"
  /\ fr = NoFrame
  /\ fr2 = NoFrame
  /\ wk = NoWalk
  /\ up = NoUpload
  /\ dl = NoDownload
  /\ ac = NoAccount

NextBoth == Next \/ NextWalk

SpecBoth == InitBoth /\ [][NextBoth]_vars

\* The content: downloads to one local path, which may hold a file already,
\* and uploads, by one caller, one call after the other.
InitContent ==
  /\ pages = <<Slice(<<>>)>>
  /\ opts = FreshOpts
  /\ pc = "idle"
  /\ fr = NoFrame
  /\ fr2 = NoFrame
  /\ wk = NoWalk
  /\ up = NoUpload
  /\ dl \in {[NoDownload EXCEPT !.fs = fs, !.pre = fs] : fs \in {"absent", "old"}}
  /\ ac = NoAccount

NextContent ==
  \/ DownloadCall
  \/ Upload
  \/ UploadNewRequest
  \/ UploadCheck
  \/ UploadReturnErr
  \/ UploadDo
  \/ UploadDoReturn
  \/ UploadReceive
  \/ UploadFinish
  \/ TransportClose
  \/ ProducerWriteField
  \/ ProducerStore
  \/ ProducerCheck
  \/ ProducerSend
  \/ ProducerCreateFormFile
  \/ ProducerCopy
  \/ ProducerClose
  \/ ProducerDefer
  \/ Return

SpecContent == InitContent /\ [][NextContent]_vars

\* The steps of the producer goroutine, and those of Upload after it has
\* started the producer.
ProducerNext ==
  \/ ProducerWriteField
  \/ ProducerStore
  \/ ProducerCheck
  \/ ProducerSend
  \/ ProducerCreateFormFile
  \/ ProducerCopy
  \/ ProducerClose
  \/ ProducerDefer

UploadNext ==
  \/ UploadNewRequest
  \/ UploadCheck
  \/ UploadReturnErr
  \/ UploadDo
  \/ UploadDoReturn
  \/ UploadReceive
  \/ UploadFinish

\* The content operations with the scheduling of the Go runtime: a goroutine
\* that can take a step takes it (the producer, the caller inside Upload), and
\* the transport closes a request body it has been given.
SpecContentFair ==
  /\ InitContent /\ [][NextContent]_vars
  /\ WF_vars(ProducerNext) /\ WF_vars(UploadNext) /\ WF_vars(TransportClose)

\* The account: the three accessors by one caller, one call after the other,
\* against a server that holds some account.
InitAccount ==
  /\ pages = <<Slice(<<>>)>>
  /\ opts = FreshOpts
  /\ pc = "idle"
  /\ fr = NoFrame
  /\ fr2 = NoFrame
  /\ wk = NoWalk
  /\ up = NoUpload
  /\ dl = NoDownload
  /\ ac \in {[NoAccount EXCEPT !.info = i, !.quota = q, !.usage = u] :
              i \in InfoBodies, q \in QuotaBodies, u \in UsageBodies}

NextAccount ==
  \/ GetInfo
  \/ GetQuota
  \/ GetUsage
  \/ Return

SpecAccount == InitAccount /\ [][NextAccount]_vars

\* The listing of all pages against servers that end their listing and servers
\* that do not, their pages being alike. The loop of listAllNodes is sequential code of the calling
\* goroutine: an iteration that can be taken is taken, which is the weak
\* fairness of the two loop actions.
InitTerm == InitBoth

NextTerm ==
  \/ \E argNil \in BOOLEAN : GetAllNodes(argNil)
  \/ \E argNil \in BOOLEAN : GetAllChildren(argNil)
  \/ ListAllLoop
  \/ ListAllLoopMore
  \/ Return

SpecTerm == InitTerm /\ [][NextTerm]_vars /\ WF_vars(ListAllLoop) /\ WF_vars(ListAllLoopMore)

\* ---------------------------------------------------------------- claims

PageOps == {"GetNodes", "GetChildren"}
AllOps == {"GetAllNodes", "GetAllChildren"}

\* A finished GetNodes / GetChildren call on the caller's options.
PageCallDone == pc = "returned" /\ fr.op \in PageOps /\ ~fr.argNil
\* A finished GetAllNodes / GetAllChildren call.
AllCallDone == pc = "returned" /\ fr.op \in AllOps /\ fr.done

\* The records of a slice are those of data, in the same order.
SameRecords(nodes, data) ==
  /\ nodes.nil = data.nil
  /\ Len(nodes.elems) = Len(data.elems)
  /\ \A i \in DOMAIN data.elems :
       /\ nodes.elems[i].Id = data.elems[i].Id
       /\ nodes.elems[i].Name = data.elems[i].Name
       /\ nodes.elems[i].Kind = data.elems[i].Kind

\* The records of the pages from..to of the server's listing, in order.
RECURSIVE PagesConcat(_, _)
PagesConcat(from, to) ==
  IF from > to THEN <<>> ELSE PagesConcat(from, to - 1) \o pages[to].elems

\* The records of the bodies of the first n exchanges of a log, in order.
RECURSIVE BodiesConcat(_, _)
BodiesConcat(log, n) ==
  IF n = 0 THEN <<>> ELSE BodiesConcat(log, n - 1) \o log[n].body.Data.elems

\* C1: a listPage call (GetNodes, GetChildren) on options whose completion flag
\* is already set returns an empty result and no error, issues no request and
\* leaves the options as they were, however often it is repeated.
C1_CompleteListPageIsNoOp ==
  (PageCallDone /\ fr.pre.reachedEnd) =>
     /\ fr.nodes.nil /\ Len(fr.nodes.elems) = 0
     /\ fr.err = NoErr
     /\ fr.log = <<>>
     /\ fr.o = fr.pre /\ opts = fr.pre

\* A listPage call was made on options already complete, after a listAll or
\* listPage had exhausted the listing.
C1_Witness ==
  PageCallDone /\ fr.pre.reachedEnd /\ fr.pre.StartToken = TokenOf(1) /\ fr.op = "GetChildren"

\* C2: after a successful listPage call on options not complete, the cursor is
\* the continuation token of the response and the flag is still false if the
\* response carries one, the flag is true if it carries none, and the nodes
\* returned are the records of the response, in order.
C2_ListPageUpdatesOptions ==
  (PageCallDone /\ ~fr.pre.reachedEnd /\ fr.err = NoErr) =>
     /\ Len(fr.log) = 1
     /\ LET body == fr.log[1].body IN
          /\ body.NextToken # Nil =>
               opts.StartToken = body.NextToken /\ ~opts.reachedEnd
          /\ body.NextToken = Nil => opts.reachedEnd
          /\ SameRecords(fr.nodes, body.Data)

\* The fixture of TestNode_getNodes: two records and the token "kgkbpodpt6".
C2_Witness ==
  /\ PageCallDone /\ fr.op = "GetNodes" /\ fr.pre = FreshOpts /\ fr.err = NoErr
  /\ fr.log[1].body.NextToken = "kgkbpodpt6"
  /\ Len(fr.nodes.elems) = 2
  /\ fr.nodes.elems[1].Id = "eRkZ6YMuX5W3VqV3Ia7_lf" /\ fr.nodes.elems[1].Name = "fooNew.jpg"
  /\ fr.nodes.elems[2].Id = "fooo1" /\ fr.nodes.elems[2].Name = "foo.zip"
  /\ opts.StartToken = "kgkbpodpt6" /\ ~opts.reachedEnd

\* C3: a listPage call that fails (building the request, the transport, or
\* decoding) returns the error and no nodes and leaves the options as they were
\* before the call: cursor not advanced, flag not set.
C3_FailedListPageKeepsOptions ==
  (PageCallDone /\ fr.err # NoErr) =>
     /\ fr.err.kind \in Faults \ {"none"}
     /\ fr.log # <<>> => fr.err.kind = fr.log[1].fault
     /\ fr.nodes = NilSlice
     /\ fr.o = fr.pre /\ opts = fr.pre

\* In the middle of a listing (cursor at the second page) the response of the
\* last page could not be decoded: the cursor stays and the flag is not set.
C3_Witness ==
  /\ PageCallDone /\ fr.err.kind = "decerr" /\ fr.pre.StartToken = TokenOf(1)
  /\ fr.log[1].body.NextToken = Nil /\ ~opts.reachedEnd

\* C4: the completion flag only ever changes from false to true, and only in a
\* step in which a listPage call (alone or in a listAll) got a successful
\* response without continuation token; once true it stays true.
C4_FlagSetOnceByLastPage ==
  [][ (opts'.reachedEnd # opts.reachedEnd) =>
        /\ ~opts.reachedEnd /\ opts'.reachedEnd
        /\ fr'.err = NoErr
        /\ fr'.log # <<>>
        /\ fr'.log[Len(fr'.log)].fault = "none"
        /\ fr'.log[Len(fr'.log)].body.NextToken = Nil
        /\ (fr'.op \in PageOps \/ Len(fr'.log) = Len(fr.log) + 1) ]_vars

\* The flag was set, and a later listAll on the same options has run and ended.
C4_Witness ==
  AllCallDone /\ ~fr.argNil /\ fr.pre.reachedEnd /\ opts.reachedEnd /\ Len(pages) = 3

\* C5, as claimed: a listAll on fresh options that ends without error has
\* returned the records of all the pages of the server's listing, in order.
C5_ListAllReturnsAllPages ==
  (AllCallDone /\ fr.pre = FreshOpts /\ fr.err = NoErr) =>
     /\ ~fr.nodes.nil
     /\ SameRecords(fr.nodes, Slice(PagesConcat(1, Len(pages))))

\* C6: when the j-th page request of a listAll fails, listAll returns that
\* error with the nodes of the j-1 pages before (a non-nil empty slice for
\* j = 1), and the cursor is the continuation token of page j-1.
C6_ListAllPartialOnError ==
  (AllCallDone /\ fr.err # NoErr) =>
     LET got == IF fr.log # <<>> /\ fr.log[Len(fr.log)].fault # "none"
                THEN Len(fr.log) - 1 ELSE Len(fr.log)
     IN /\ fr.err.kind \in Faults \ {"none"}
        /\ \A k \in 1..got : fr.log[k].fault = "none"
        /\ ~fr.nodes.nil
        /\ SameRecords(fr.nodes, Slice(BodiesConcat(fr.log, got)))
        /\ fr.o.StartToken = IF got = 0 THEN listAllOpts(fr.pre).StartToken
                             ELSE fr.log[got].body.NextToken
        /\ ~fr.o.reachedEnd
        /\ ~fr.argNil => opts = fr.o

\* The third page request failed after two pages with records; and the first
\* request failed on fresh options.
C6_Witness ==
  /\ AllCallDone /\ fr.err.kind = "neterr" /\ Len(fr.log) = 3 /\ ~fr.argNil
  /\ Len(fr.nodes.elems) = 3 /\ Len(pages[1].elems) = 2
  /\ opts.StartToken = TokenOf(2)

\* C7, as claimed: in a listAll no request follows a page that arrived with
\* zero node records, whether its data is an empty sequence or absent.
C7_NoRequestAfterEmptyPage ==
  (fr.op \in AllOps) =>
     \A k \in 1..(Len(fr.log) - 1) : Len(fr.log[k].body.Data.elems) # 0

\* C7, amended: listAll ends at the first listPage call that returns nil nodes
\* or an error. A successful page whose data is absent ends it with no further
\* request even if it carried a token, and so does a failed exchange; a page
\* whose data is present, empty or not, does not end it: with a token the loop
\* goes on to the next request, without one the next listPage call returns nil
\* with no request.
C7_ListAllStopsOnNilOrError ==
  (fr.op \in AllOps) =>
     /\ \A k \in 1..Len(fr.log) :
          (fr.log[k].fault # "none" \/ fr.log[k].body.Data.nil) =>
             k = Len(fr.log) /\ fr.done
     /\ (fr.log # <<>> /\ fr.log[Len(fr.log)].fault = "none"
           /\ ~fr.log[Len(fr.log)].body.Data.nil
           /\ fr.log[Len(fr.log)].body.NextToken # Nil /\ fr.err = NoErr) => ~fr.done
     /\ (fr.done /\ fr.err = NoErr /\ fr.log # <<>>
           /\ ~fr.log[Len(fr.log)].body.Data.nil) =>
             fr.log[Len(fr.log)].body.NextToken = Nil /\ fr.o.reachedEnd

\* A listAll got an empty, present page with a token, went on to the next
\* request and ended with the records of the later page.
C7_Witness ==
  /\ AllCallDone /\ fr.err = NoErr /\ Len(fr.log) = 2
  /\ fr.log[1].body.Data = Slice(<<>>) /\ fr.log[1].body.NextToken # Nil
  /\ Len(fr.nodes.elems) = 2

\* What two listAllNodes calls can be compared on: all but their argument.
Observable(f) ==
  [url |-> f.url, o |-> f.o, result |-> f.result, done |-> f.done, nodes |-> f.nodes,
   resp |-> f.resp, err |-> f.err, log |-> f.log]

\* C8: listAll with nil options does what listAll with fresh options does: the
\* same requests in the same order, the same pagination state of its own, and
\* once ended the same nodes and error.
C8_NilOptionsLikeFresh ==
  (fr.op = "listAllNodes" /\ fr2.op = "listAllNodes") =>
     /\ fr.argNil /\ ~fr2.argNil /\ fr2.pre = FreshOpts
     /\ Observable(fr) = Observable(fr2)

\* The call with nil options went through three pages and returned their records.
C8_Witness ==
  /\ pc = "returned" /\ fr.op = "listAllNodes" /\ fr.argNil /\ fr.done /\ fr.err = NoErr
  /\ Len(fr.log) = 3 /\ Len(fr.nodes.elems) = 4
  /\ fr.log[2].req.startToken = TokenOf(1) /\ fr.log[3].req.startToken = TokenOf(2)

\* C9: getNode issues one listing request filtered by parent folder and name;
\* it fails with not-found on zero nodes, with too-many on two or more, no node
\* being returned either way, and returns the node without error on exactly one.
C9_GetNodeExactlyOne ==
  (wk.op = "GetNode" /\ wk.done) =>
     /\ Len(wk.log) <= 1
     /\ wk.err.kind \notin {"urlerr", "reqerr"} => Len(wk.log) = 1
     /\ wk.log # <<>> =>
          /\ wk.log[1].req.path = "nodes"
          /\ wk.log[1].req.filters = <<"parents", wk.f.node.Id, "name", wk.names[1]>>
          /\ wk.log[1].req.startToken = Nil
     /\ (wk.log # <<>> /\ wk.log[1].fault = "none") =>
          LET data == wk.log[1].body.Data.elems IN
          /\ Len(data) = 0 =>
               wk.err.kind = "NoNodeFound" /\ wk.err.name = wk.names[1] /\ wk.node.null
          /\ Len(data) >= 2 =>
               wk.err.kind = "TooManyNodes" /\ wk.err.count = Len(data) /\ wk.node.null
          /\ Len(data) = 1 =>
               wk.err = NoErr /\ wk.node = [data[1] EXCEPT !.service = "s"]
     /\ (wk.log = <<>> \/ wk.log[1].fault # "none") =>
          wk.err.kind \in Faults \ {"none"} /\ wk.node.null

\* The lookup of a name that two children carry.
C9_Witness ==
  /\ wk.op = "GetNode" /\ wk.done /\ wk.names = <<"a">>
  /\ Len(wk.log[1].body.Data.elems) = 2 /\ wk.log[1].fault = "none"
  /\ wk.err.kind = "TooManyNodes" /\ wk.node.null

\* C10: a walk that fails at step k returns a non-nil node, the last one
\* resolved: the folder resolved for the name before, or for k = 1 the node of
\* the starting folder.
C10_WalkReturnsLastResolved ==
  (wk.op = "WalkNodes" /\ wk.done /\ wk.err # NoErr) =>
     LET k == Len(wk.resps) IN
     /\ k >= 1 /\ k <= Len(wk.names)
     /\ ~wk.node.null
     /\ k = 1 => wk.node = wk.f.node
     /\ k > 1 =>
          /\ Len(wk.log) >= k - 1
          /\ wk.log[k - 1].fault = "none"
          /\ wk.log[k - 1].req.filters[4] = wk.names[k - 1]
          /\ wk.node = [wk.log[k - 1].body.Data.elems[1] EXCEPT !.service = "s"]
          /\ wk.node.Name = wk.names[k - 1]
          /\ IsFolder(wk.node)

\* walk(root, "a", "b", "missing"), a and b folders, missing absent: the node
\* of b comes back with the not-found error.
C10_Witness ==
  /\ wk.op = "WalkNodes" /\ wk.done /\ wk.names = <<"a", "b", "missing">>
  /\ wk.err.kind = "NoNodeFound" /\ wk.err.name = "missing"
  /\ wk.node.Name = "b" /\ wk.node.Id = "root.1.1" /\ wk.node.Kind = "FOLDER"

\* A walk that has failed, and the step it failed at: the names before that
\* step were resolved.
WalkFailed == wk.op = "WalkNodes" /\ wk.done /\ wk.err # NoErr

\* The record the j-th exchange of a lookup or walk answered with, as the
\* caller gets it.
Resolved(j) == [wk.log[j].body.Data.elems[1] EXCEPT !.service = "s"]

\* The j-th exchange of a lookup or walk answered with exactly one record.
OneRecord(j) == wk.log[j].fault = "none" /\ Len(wk.log[j].body.Data.elems) = 1

\* C11 as stated: a walk that fails at step k returns the k - 1 responses of
\* the steps before it (two for a walk over a, b, missing).
C11_WalkFailureReturnsEarlierResponses ==
  WalkFailed => Len(wk.resps) = wk.i - 1

\* C11: a walk that fails at step k returns k responses: those of the k - 1
\* steps before it, then the response of the failing step itself, which is nil
\* when the request could not be built or sent.
C11_WalkFailureReturnsFailingResponse ==
  WalkFailed =>
     /\ Len(wk.resps) = wk.i
     /\ \A j \in 1..(wk.i - 1) : wk.resps[j] = "resp" /\ OneRecord(j)
     /\ wk.resps[wk.i] = (IF wk.err.kind \in {"urlerr", "reqerr", "neterr"} THEN Nil ELSE "resp")

\* walk(root, "a", "b", "missing"), a and b folders, missing absent: three
\* responses come back with the not-found error.
C11_Witness ==
  /\ WalkFailed /\ wk.names = <<"a", "b", "missing">> /\ wk.i = 3
  /\ wk.err.kind = "NoNodeFound" /\ wk.err.name = "missing"
  /\ wk.resps = <<"resp", "resp", "resp">>

\* C12: a walk looks its names up in order, each one among the children of
\* the folder resolved for the name before it (the first among those of the
\* starting folder); every name but the last resolves to a folder, the last to
\* a node of any kind; a walk that succeeds returns the node resolved for the
\* last name and one response per name.
C12_WalkResolvesInOrder ==
  wk.op = "WalkNodes" =>
     /\ Len(wk.log) <= Len(wk.names)
     /\ \A j \in 1..Len(wk.log) :
          wk.log[j].req.filters =
            <<"parents", IF j = 1 THEN wk.f.node.Id ELSE Resolved(j - 1).Id, "name", wk.names[j]>>
     /\ \A j \in 1..(Len(wk.log) - 1) : OneRecord(j) /\ Resolved(j).Kind = "FOLDER"
     /\ (wk.done /\ Len(wk.names) > 0 /\ Len(wk.log) = Len(wk.names) /\ OneRecord(Len(wk.names)))
          => wk.err = NoErr
     /\ (wk.done /\ Len(wk.names) > 0 /\ wk.err = NoErr) =>
          /\ Len(wk.log) = Len(wk.names)
          /\ OneRecord(Len(wk.names))
          /\ wk.node = Resolved(Len(wk.names))
          /\ Len(wk.resps) = Len(wk.names)
          /\ \A j \in 1..Len(wk.names) : wk.resps[j] = "resp"

\* walk(root, "a", "b", "a") through two folders to a file.
C12_Witness ==
  /\ wk.op = "WalkNodes" /\ wk.done /\ wk.err = NoErr /\ wk.names = <<"a", "b", "a">>
  /\ wk.node.Id = "root.1.1.1" /\ wk.node.Kind = "FILE" /\ Len(wk.resps) = 3

\* C13: GetFolder and GetFile return a node only when it classifies as a
\* folder, respectively a file; a node of another kind gives the wrong-kind
\* error and no node. A walk whose name before the last resolves to something
\* that is not a folder stops there: no request is sent for a later name.
C13_WrongKindIsAnError ==
  /\ wk.op = "GetFolder" =>
       /\ ~wk.node.null =>
            Len(wk.log) = 1 /\ OneRecord(1) /\ wk.node = Resolved(1) /\ wk.node.Kind = "FOLDER"
                            /\ wk.err = NoErr
       /\ (Len(wk.log) = 1 /\ OneRecord(1) /\ Resolved(1).Kind # "FOLDER") =>
            wk.node.null /\ wk.err = [kind |-> "NotAFolder", name |-> wk.names[1], count |-> 0]
  /\ wk.op = "GetFile" =>
       /\ ~wk.node.null =>
            Len(wk.log) = 1 /\ OneRecord(1) /\ wk.node = Resolved(1) /\ wk.node.Kind = "FILE"
                            /\ wk.err = NoErr
       /\ (Len(wk.log) = 1 /\ OneRecord(1) /\ Resolved(1).Kind # "FILE") =>
            wk.node.null /\ wk.err = [kind |-> "NotAFile", name |-> wk.names[1], count |-> 0]
  /\ wk.op = "WalkNodes" =>
       \A j \in 1..Len(wk.log) :
          (j < Len(wk.names) /\ OneRecord(j) /\ Resolved(j).Kind # "FOLDER") =>
             /\ j = Len(wk.log) /\ wk.done /\ pc = "returned"
             /\ wk.err = [kind |-> "NotAFolder", name |-> wk.names[j], count |-> 0]

\* walk(root, "a", "b", "missing") with a a file: one request, the wrong-kind
\* error for a.
C13_Witness ==
  /\ wk.op = "WalkNodes" /\ wk.done /\ wk.names = <<"a", "b", "missing">>
  /\ Len(wk.log) = 1 /\ OneRecord(1) /\ Resolved(1).Kind = "FILE"
  /\ wk.err.kind = "NotAFolder" /\ wk.err.name = "a"

\* C14: a walk over no names returns at once the node of the folder it
\* started from, no response and no error, and sends no request.
C14_EmptyWalkReturnsStart ==
  (wk.op = "WalkNodes" /\ Len(wk.names) = 0) =>
     /\ pc = "returned" /\ wk.done
     /\ wk.node = wk.f.node /\ ~wk.node.null
     /\ wk.resps = <<>> /\ wk.err = NoErr /\ wk.log = <<>>

\* walk(root) has returned the root.
C14_Witness ==
  /\ wk.op = "WalkNodes" /\ wk.names = <<>> /\ pc = "returned"
  /\ wk.node.Id = "root" /\ wk.resps = <<>>

\* C15: Typed gives, for every node, the File view when the kind is "FILE",
\* the Folder view when it is "FOLDER" and the plain node when the kind is
\* absent or anything else; the view holds the very node it was asked about.
C15_TypedIsTotal ==
  wk.op = "Typed" =>
     /\ wk.typed.view = (CASE wk.node.Kind = "FILE" -> "File"
                           [] wk.node.Kind = "FOLDER" -> "Folder"
                           [] OTHER -> "Node")
     /\ wk.typed.node = wk.node

\* A node of kind "WHATEVER" was classified as a plain node.
C15_Witness ==
  wk.op = "Typed" /\ wk.node.Kind = "WHATEVER" /\ wk.typed.view = "Node"
                  /\ wk.typed.node.Id = "root.1"

\* C16: IsFile is true exactly when Typed gives the File view, IsFolder
\* exactly when it gives the Folder view; they are never both true, and both
\* are false exactly when Typed gives the plain node.
C16_PredicatesAgreeWithTyped ==
  wk.op = "Typed" =>
     /\ wk.isFile <=> wk.typed.view = "File"
     /\ wk.isFolder <=> wk.typed.view = "Folder"
     /\ ~(wk.isFile /\ wk.isFolder)
     /\ (~wk.isFile /\ ~wk.isFolder) <=> wk.typed.view = "Node"

\* A folder was classified: IsFolder holds, IsFile does not, and Typed gives
\* the Folder view.
C16_Witness ==
  wk.op = "Typed" /\ wk.node.Kind = "FOLDER" /\ wk.isFolder /\ ~wk.isFile
                  /\ wk.typed.view = "Folder"

\* The exchanges of a listing call f: at most one for a single page, and one
\* that failed is the last one, the call returning its error.
NoRetryListing(f) ==
  /\ f.op \in PageOps => Len(f.log) <= 1
  /\ f.err # NoErr => f.done
  /\ \A k \in 1..Len(f.log) :
       f.log[k].fault # "none" => k = Len(f.log) /\ f.done /\ f.err = Err(f.log[k].fault)

\* C20: no call asks twice. A single-page call and a lookup send at most one
\* request; a listing of all pages or a walk whose request fails, or whose
\* lookup finds no node, several nodes or a node of the wrong kind, sends no
\* request after it and returns that error.
C20_NoRetry ==
  /\ NoRetryListing(fr)
  /\ NoRetryListing(fr2)
  /\ wk.op \in {"GetNode", "GetFolder", "GetFile"} => Len(wk.log) <= 1
  /\ wk.op \in {"GetNode", "GetFolder", "GetFile", "WalkNodes"} =>
       /\ wk.err # NoErr => wk.done
       /\ Len(wk.log) <= Len(wk.names)
       /\ \A k \in 1..Len(wk.log) :
            LET last == k = Len(wk.log) /\ wk.done
                n == Len(wk.log[k].body.Data.elems)
            IN /\ wk.log[k].fault # "none" => last /\ wk.err = Err(wk.log[k].fault)
               /\ (wk.log[k].fault = "none" /\ n = 0) =>
                    last /\ wk.err = [kind |-> "NoNodeFound", name |-> wk.names[k], count |-> 0]
               /\ (wk.log[k].fault = "none" /\ n > 1) =>
                    last /\ wk.err = [kind |-> "TooManyNodes", name |-> wk.names[k], count |-> n]
               /\ (OneRecord(k) /\ Resolved(k).Kind # "FOLDER"
                     /\ (wk.op = "GetFolder" \/ (wk.op = "WalkNodes" /\ k < Len(wk.names)))) =>
                    last /\ wk.err = [kind |-> "NotAFolder", name |-> wk.names[k], count |-> 0]
               /\ (OneRecord(k) /\ Resolved(k).Kind # "FILE" /\ wk.op = "GetFile") =>
                    last /\ wk.err = [kind |-> "NotAFile", name |-> wk.names[k], count |-> 0]

\* A listing of all pages whose second request failed in transit has returned
\* after two requests, with a third page left on the server.
C20_Witness ==
  /\ fr.op \in AllOps /\ fr.done /\ pc = "returned" /\ Len(fr.log) = 2
  /\ fr.log[1].fault = "none" /\ fr.log[2].fault = "neterr" /\ fr.err = Err("neterr")
  /\ Len(pages) = MaxPages

\* Upload has returned after its HTTP call.
UploadDone == up.cpc = "returned" /\ up.doErr # "pending"

\* C17: Upload waits for the producer after the HTTP call has returned; a
\* failure in the producer (metadata field, content part, copy of the local
\* file, close of the multipart writer) makes Upload return that error and no
\* File even when the HTTP call succeeded; a File without error comes back
\* only when the HTTP call and the producer both succeeded.
C17_UploadReportsProducerError ==
  UploadDone =>
     /\ up.doErr = Nil => up.psent # "none"
     /\ (up.doErr = Nil /\ up.perr # Nil) => ~up.file /\ up.ret = up.perr
     /\ (up.file /\ up.ret = Nil) => up.doErr = Nil /\ up.perr = Nil

\* C18: the producer and the caller share no variable but the pipe and the
\* channel: whenever the caller reads err it finds what it assigned itself,
\* Upload returns what the caller assigned, and the producer reports what
\* failed in the producer.
C18_ErrIsNotShared ==
  /\ up.cpc \in {"chkreq", "chkdo", "ret", "chkrecv"} => up.err = up.cerr
  /\ up.cpc = "returned" => up.ret = up.cerr
  /\ up.psent # "none" => up.psent = up.perr

\* C19 as stated: a Download to a path that exists fails with an error of the
\* local file system, sends no content request and leaves the file as it was;
\* a content request is sent only once the destination has been created.
C19_ExistingPathIsALocalError ==
  dl.op = "Download" =>
     /\ dl.pre # "absent" => dl.err \in LocalErrs /\ dl.log = <<>> /\ dl.fs = dl.pre
     /\ dl.log # <<>> => dl.pre = "absent" /\ dl.fs \in {"created", "content"}

\* C19: a Download to a path that exists fails, sends no content request and
\* leaves the file as it was; its error is one of the local file system unless
\* the request could not be built, which is found out first and reported
\* instead. A content request is sent only once the destination has been
\* created, and it is the GET of the file's content.
C19_DownloadNeverOverwrites ==
  dl.op = "Download" =>
     /\ dl.pre # "absent" =>
          /\ dl.err # Nil /\ dl.log = <<>> /\ dl.fs = dl.pre
          /\ dl.err = (IF dl.fault = "reqerr" THEN "reqerr"
                       ELSE IF dl.fault = "openerr" THEN "openerr" ELSE "exists")
     /\ dl.log # <<>> =>
          /\ dl.pre = "absent" /\ dl.fs \in {"created", "content"}
          /\ dl.log = <<[method |-> "GET", url |-> "nodes/root.1/content"]>>

\* A Download onto the file an earlier Download has written: the error of the
\* exclusive create, no request, the content still there.
C19_Witness ==
  /\ dl.op = "Download" /\ pc = "returned" /\ dl.pre = "content" /\ dl.fault = "none"
  /\ dl.err = "exists" /\ dl.log = <<>> /\ dl.fs = "content"

\* A finished account call, the path of its accessor, and the body the server
\* holds for it.
AccountDone == pc = "returned" /\ ac.op \in {"GetInfo", "GetQuota", "GetUsage"}
PathOf(op) ==
  IF op = "GetInfo" THEN "account/info"
  ELSE IF op = "GetQuota" THEN "account/quota" ELSE "account/usage"
BodyOf(op) == IF op = "GetInfo" THEN ac.info ELSE IF op = "GetQuota" THEN ac.quota ELSE ac.usage

\* The decoded member p holds what the server sent as member m.
AsSent(p, m) == IF m.t = "absent" THEN p.nil ELSE ~p.nil /\ p.val = m.v

\* C21: an account accessor sends one GET to its own path (none when the
\* request cannot be built); when it succeeds it returns the members as the
\* server sent them and no error; when the request or the decoding fails it
\* returns no value and that error. What it returns is decided by the body the
\* server holds and by what happens during the call, whatever was called
\* before.
C21_AccountAccessors ==
  AccountDone =>
     /\ Len(ac.log) <= 1
     /\ ac.fault # "reqerr" => ac.log = <<[method |-> "GET", url |-> PathOf(ac.op)]>>
     /\ ac.fault # "none" => ac.err = ac.fault
     /\ ac.err # Nil => ac.value.null /\ ac.err \in {"reqerr", "neterr", "decerr"}
     /\ ac.err = Nil =>
          /\ ac.fault = "none" /\ ac.resp = "resp" /\ ~ac.value.null
          /\ AsSent(ac.value.a, BodyOf(ac.op).a)
          /\ AsSent(ac.value.b, BodyOf(ac.op).b)
          /\ AsSent(ac.value.c, BodyOf(ac.op).c)

\* The fixture of TestAccount_getQuota.
C21_Witness ==
  /\ AccountDone /\ ac.op = "GetQuota" /\ ac.err = Nil
  /\ ac.value.a = Ptr("5368709120") /\ ac.value.c = Ptr("4069088896")
  /\ ac.value.b = Ptr("2014-08-13T23:01:47.479Z")
  /\ ac.info.b = Str("ACTIVE")

\* C22: in a listing on one options value, a request carries no startToken when
\* the options hold no cursor (as fresh ones do) and else the cursor they hold;
\* a successful response with a continuation token makes that token the cursor,
\* so the next request carries the token of the response before it; a failed
\* call leaves the cursor and the flag as they were, so the next call on the
\* same options asks for the same page again.
C22_CursorChain ==
  [][ (pc \in {"idle", "listAll"} /\ fr'.op \in PageOps \cup AllOps
        /\ Len(fr'.log) > (IF pc = "listAll" THEN Len(fr.log) ELSE 0)) =>
        LET before == IF pc = "listAll" THEN fr.o ELSE fr'.pre
            after  == fr'.o
            x      == fr'.log[Len(fr'.log)]
        IN ~before.null =>
             /\ ~fr'.argNil => before = opts /\ after = opts'
             /\ x.req.startToken = (IF before.StartToken = "" THEN Nil ELSE before.StartToken)
             /\ (Len(fr'.log) > 1 /\ fr'.op \in AllOps) =>
                  /\ fr'.log[Len(fr'.log) - 1].fault = "none"
                  /\ x.req.startToken = fr'.log[Len(fr'.log) - 1].body.NextToken
             /\ (x.fault = "none" /\ x.body.NextToken # Nil) =>
                  after.StartToken = x.body.NextToken /\ ~after.reachedEnd
             /\ (x.fault = "none" /\ x.body.NextToken = Nil) =>
                  after.StartToken = before.StartToken /\ after.reachedEnd
             /\ x.fault # "none" => after = before /\ PageIndex(x.req.startToken) =
                  (IF before.StartToken = "" THEN 1 ELSE PageIndex(before.StartToken)) ]_vars

\* A listing of all pages resumed on options whose cursor an earlier call had
\* left at the second page: it asked for the second page, then with the token
\* of that response for the third, which failed, and the cursor stays there.
C22_Witness ==
  /\ pc = "returned" /\ fr.op \in AllOps /\ ~fr.argNil
  /\ fr.pre.StartToken = TokenOf(1) /\ Len(fr.log) = 2
  /\ fr.log[1].req.startToken = TokenOf(1) /\ fr.log[1].fault = "none"
  /\ fr.log[2].req.startToken = TokenOf(2) /\ fr.log[2].fault = "neterr"
  /\ opts.StartToken = TokenOf(2) /\ ~opts.reachedEnd

\* A running listAll all of whose responses so far carried a continuation token
\* and node records.
TokensSoFar(f) ==
  \A k \in 1..Len(f.log) :
    f.log[k].fault = "none" /\ f.log[k].body.NextToken # Nil /\ ~f.log[k].body.Data.nil

\* C23: a listAll that got a response without continuation token returns (the
\* iteration after it ends the loop), and one whose request failed has returned
\* with that request; as long as every response carries a continuation token
\* and node records and no request fails the call has not returned, after
\* however many pages and nodes.
C23_ListAllTermination ==
  /\ (pc = "listAll" /\ fr.o.reachedEnd) ~> (pc = "returned")
  /\ [](fr.op \in AllOps =>
          /\ (\E k \in 1..Len(fr.log) : fr.log[k].fault # "none") => fr.done /\ pc = "returned"
          /\ (\E k \in 1..Len(fr.log) : fr.log[k].fault = "none" /\ fr.log[k].body.NextToken = Nil)
               => fr.o.reachedEnd
          /\ (~fr.pre.reachedEnd /\ TokensSoFar(fr) /\ fr.err = NoErr)
               => ~fr.done /\ pc = "listAll")

\* A listAll still running after more requests than the server has pages, with
\* more records accumulated than the server holds.
C23_Witness ==
  /\ pc = "listAll" /\ fr.op \in AllOps /\ TokensSoFar(fr) /\ ~fr.pre.reachedEnd
  /\ Len(fr.log) = MaxReq /\ Len(pages) < MaxReq
  /\ Len(fr.result.elems) > Len(PagesConcat(1, Len(pages)))

\* C24: a listPage call with nil options does not fail on the missing options:
\* it sends one request (none only when the request cannot be built) to the
\* plain path without query parameters, returns the records of the first page
\* when the exchange succeeds, and touches no options, so it never reports
\* completion, whatever the caller's own options hold.
C24_NilOptionsListPage ==
  [][ (pc = "idle" /\ fr'.op \in PageOps /\ fr'.argNil) =>
        /\ opts' = opts /\ fr'.o = NilOpts /\ fr'.pre = NilOpts
        /\ fr'.err.kind # "urlerr"
        /\ Len(fr'.log) <= 1
        /\ fr'.err.kind # "reqerr" => Len(fr'.log) = 1
        /\ fr'.log # <<>> =>
             /\ fr'.log[1].req = [path |-> fr'.url, limit |-> Nil, filters |-> <<>>,
                                  sort |-> Nil, startToken |-> Nil]
             /\ fr'.err.kind = (IF fr'.log[1].fault = "none" THEN Nil ELSE fr'.log[1].fault)
        /\ fr'.err = NoErr =>
             /\ fr'.log # <<>>
             /\ SameRecords(fr'.nodes, pages[1])
             /\ fr'.log[1].body.NextToken = (IF Len(pages) > 1 THEN TokenOf(1) ELSE Nil) ]_vars

\* GetChildren(nil) returned the two records of the first page while the
\* caller's own options are at the end of the listing.
C24_Witness ==
  /\ pc = "returned" /\ fr.op = "GetChildren" /\ fr.argNil /\ fr.err = NoErr
  /\ Len(fr.nodes.elems) = 2 /\ Len(fr.log) = 1
  /\ opts.reachedEnd /\ Len(pages) = 1

\* C25, as claimed: when a listAll has returned without error the listing is
\* exhausted: the completion flag of the options it worked on is set, the last
\* response it got carried no continuation token, and a following listPage
\* with these options sends no request and returns no nodes.
C25_ListAllExhausts ==
  (AllCallDone /\ fr.err = NoErr) =>
     /\ fr.o.reachedEnd
     /\ fr.log # <<>> => fr.log[Len(fr.log)].body.NextToken = Nil
     /\ \A env \in ListEnvs(fr.o) :
          LET r == listNodes(fr.url, fr.o, env) IN r.log = <<>> /\ r.nodes = NilSlice

\* C26, as claimed: once Upload has returned, on whichever path, the producer
\* it started finishes: it ends with the local file and the pipe writer closed,
\* blocked neither on a write into the pipe nor on the send on the channel.
C26_ProducerFinishes ==
  (up.cpc = "returned" /\ up.ppc # "none") ~>
     (up.ppc = "done" /\ ~up.inOpen /\ up.wclosed)

\* C27: getNode decides on one page: whatever the caller's listing options
\* hold it leaves them alone and sends one request (none only when the request
\* cannot be built), the filter its only query parameter and no startToken; it
\* sends no second request when the response carries a continuation token, and
\* returns the one record of the page as the node found even then.
C27_GetNodeSinglePage ==
  [][ (pc = "idle" /\ wk'.op = "GetNode") =>
        /\ opts' = opts
        /\ Len(wk'.log) <= 1
        /\ wk'.err.kind \notin {"urlerr", "reqerr"} => Len(wk'.log) = 1
        /\ wk'.log # <<>> =>
             /\ wk'.log[1].req =
                  [path |-> "nodes", limit |-> Nil,
                   filters |-> <<"parents", wk'.f.node.Id, "name", wk'.names[1]>>,
                   sort |-> Nil, startToken |-> Nil]
             /\ (wk'.log[1].fault = "none" /\ Len(wk'.log[1].body.Data.elems) = 1) =>
                  /\ wk'.err = NoErr
                  /\ wk'.node = [wk'.log[1].body.Data.elems[1] EXCEPT !.service = "s"]
             /\ (wk'.log[1].fault = "none" /\ Len(wk'.log[1].body.Data.elems) = 0) =>
                  wk'.err.kind = "NoNodeFound" /\ wk'.node.null
             /\ (wk'.log[1].fault = "none" /\ Len(wk'.log[1].body.Data.elems) > 1) =>
                  wk'.err.kind = "TooManyNodes" /\ wk'.node.null ]_vars

\* With the caller's listing options at the end of a listing, a lookup got one
\* record and a continuation token and returned the record as the node found.
C27_Witness ==
  /\ pc = "returned" /\ wk.op = "GetNode" /\ wk.done /\ wk.err = NoErr /\ ~wk.node.null
  /\ Len(wk.log) = 1 /\ wk.log[1].body.NextToken # Nil
  /\ Len(wk.log[1].body.Data.elems) = 1
  /\ opts.reachedEnd /\ opts.StartToken # ""

====
